---- MODULE Spec2Model ----
(***************************************************************************)
(* Model of the GIF overlay's decode-and-delivery pipeline (src/main.rs):  *)
(* the loader thread spawned by GifOverlay::new, the mpsc channel, and the *)
(* consumer GifOverlay::update with process_incoming_frames and            *)
(* get_next_available_frame.                                               *)
(*                                                                         *)
(* Time is counted in units of 50 ms.  An Option<T> is modelled as a set   *)
(* with at most one element: {} is None and {x} is Some(x).                *)
(* Pixel buffers are not carried by the messages of this pipeline model;   *)
(* a frame is identified by its texture name gif_frame_<idx> and its delay.*)
(* update_performance_metrics only prints and keeps its own counters; it   *)
(* reads and writes none of the fields modelled here.                      *)
(***************************************************************************)
EXTENDS Integers, Sequences, FiniteSets, TLC

\* ------------------------------------------------------------------ bounds
\* Largest number of items the decoder's frame iterator yields.
MaxFrames == 3
\* The clock stops advancing here (units of 50 ms).
MaxTime == 4

\* Frame delays a source may carry (units of 50 ms): 0, 100 ms, 200 ms.
Delays == {0, 2, 4}

\* Result of decoding one frame: Ok(frame with a delay) or Err.
DecodeError == -1
DecodeResults == Delays \cup {DecodeError}

VARIABLES
    source,             \* the file at gif_path: what open/decode will yield
    loader_pc,          \* position of the loader thread
    idx,                \* loader: number of iterator items taken so far
    frame_count,        \* loader: local frame_count
    channel,            \* messages sent and not yet received
    frames,             \* GifOverlay.frames : Vec<Option<Frame>>
    current_frame,      \* GifOverlay.current_frame
    last_update,        \* GifOverlay.last_update
    loading_complete,   \* GifOverlay.loading_complete
    first_frame_loaded, \* GifOverlay.first_frame_loaded
    total_frame,        \* GifOverlay.total_frame
    frames_loaded,      \* GifOverlay.frames_loaded
    update_pc,          \* position of the UI thread inside update
    now,                \* Instant::now()
    shown,              \* what update handed to the ui in the current tick
    repaint,            \* Option<Duration>: request_repaint_after of the tick
    sent,               \* history: every message the loader has sent
    applied,            \* history: every message the consumer has applied
    drained,            \* history: messages applied by the current drain call
    raw_opacity,        \* Args.opacity as given on the command line
    opacity,            \* the shadowed `opacity` of GifOverlay::new
    pixel,              \* one RGBA pixel p of a decoded frame buffer
    out_pixel,          \* Option: the four bytes the loader emits for p
    pixel_pc            \* position in the pixel path: "new", "clamped", "sent"

vars == <<source, loader_pc, idx, frame_count, channel, frames, current_frame,
          last_update, loading_complete, first_frame_loaded, total_frame,
          frames_loaded, update_pc, now, shown, repaint, sent, applied,
          drained, raw_opacity, opacity, pixel, out_pixel, pixel_pc>>

loaderVars == <<loader_pc, idx, frame_count>>
overlayVars == <<frames, current_frame, last_update, loading_complete,
                 first_frame_loaded, total_frame, frames_loaded>>
outputVars == <<shown, repaint>>
pixelVars == <<raw_opacity, opacity, pixel, out_pixel, pixel_pc>>

\* ------------------------------------------------------------------ data
None == {}
Some(x) == {x}
Unwrap(o) == CHOOSE x \in o : TRUE

\* struct Frame: the texture is named gif_frame_<idx>.
Frame(i, delay) == [texture |-> i, delay |-> delay]

\* enum LoadingMessage
MsgFrameReady(i, delay) == [kind |-> "FrameReady", idx |-> i, delay |-> delay]
MsgLoadingComplete(n) == [kind |-> "LoadingComplete", idx |-> n, delay |-> 0]

\* Sequences over S of length at most n.
SeqUpTo(S, n) == UNION {[1..k -> S] : k \in 0..n}

\* The frame iterator is consumed up to its first Err and no further, so a
\* source is described by its items up to and including that Err.
FrameItems ==
    {s \in SeqUpTo(DecodeResults, MaxFrames) :
        \A k \in 1..Len(s) : s[k] = DecodeError => k = Len(s)}

Sources ==
    {[kind |-> "unopenable", items |-> <<>>],
     [kind |-> "invalid", items |-> <<>>]}
    \cup {[kind |-> "gif", items |-> s] : s \in FrameItems}

\* Variant of SaturatingSub: a plain subtraction.
SaturatingSub_Plain(a, b) == a - b

\* Duration::saturating_sub
SaturatingSub(a, b) == IF a >= b THEN a - b ELSE 0

\* ------------------------------------------------------------------ f32 opacity
\* A u8 channel value is at most this.
MaxAlpha == 255
\* Significant bits of an f32.
MantissaBits == 24

Pow2(n) == 2^n

\* An f32 is written [neg, m, e] for (-1)^neg * m * 2^-e with m < 2^24.
F32(neg, m, e) == [neg |-> neg, m |-> m, e |-> e]
Zero == F32(FALSE, 0, 0)
One == F32(FALSE, 1, 0)

\* Opacities given on the command line, as the f32 nearest to each:
\* -0.5, 0.0, 0.04, 0.25, 0.7, 1.0, 1.5.
RawOpacities ==
    {F32(TRUE, 1, 1), Zero, F32(FALSE, 5368709, 27), F32(FALSE, 1, 2),
     F32(FALSE, 11744051, 24), One, F32(FALSE, 3, 1)}

\* Pixels of a decoded frame: every alpha, with two colours.
Pixels == {<<c[1], c[2], c[3], a>> : c \in {<<0, 0, 0>>, <<255, 128, 7>>}, a \in 0..MaxAlpha}

\* opacity.clamp(0.0, 1.0)
Clamp(o) ==
    IF o.neg THEN Zero
    ELSE IF o.m > Pow2(o.e) THEN One
    ELSE o

\* The exact product a * o.m as hi * 4096 + lo (it can exceed 31 bits).
ProductHi(a, o) == a * (o.m \div 4096) + (a * (o.m % 4096)) \div 4096
ProductLo(a, o) == (a * (o.m % 4096)) % 4096

RECURSIVE BitLen(_)
BitLen(n) == IF n = 0 THEN 0 ELSE 1 + BitLen(n \div 2)

\* `p[3] as f32 * opacity`: the exact product rounded to 24 significant bits,
\* ties to even.  The result is sig * 2^-exp.
F32Mul(a, o) ==
    LET hi == ProductHi(a, o)
        lo == ProductLo(a, o)
        bits == IF hi = 0 THEN BitLen(lo) ELSE BitLen(hi) + 12
        s == IF bits > MantissaBits THEN bits - MantissaBits ELSE 0
        kept == hi * Pow2(12 - s) + lo \div Pow2(s)
        dropped == lo % Pow2(s)
        half == Pow2(s) \div 2
        roundUp == s > 0 /\ (dropped > half \/ (dropped = half /\ kept % 2 = 1))
    IN [sig |-> IF roundUp THEN kept + 1 ELSE kept, exp |-> o.e - s]

\* Variant of AsU8: the value is rounded to the nearest integer.
AsU8_Round(f) ==
    LET t == (2 * f.sig + Pow2(f.exp)) \div (2 * Pow2(f.exp))
    IN IF t > MaxAlpha THEN MaxAlpha ELSE t

\* `as u8` of a non-negative f32: truncates, saturating at 255.
AsU8(f) ==
    LET t == f.sig \div Pow2(f.exp)
    IN IF t > MaxAlpha THEN MaxAlpha ELSE t

\* The flat_map closure: |p| vec![p[0], p[1], p[2], alpha]
TransformPixel(p, o) == <<p[1], p[2], p[3], AsU8(F32Mul(p[4], o))>>

\* The pixel path is not exercised by the pipeline specifications.
PixelIdle ==
    /\ raw_opacity = One
    /\ opacity = One
    /\ pixel = <<0, 0, 0, 0>>
    /\ out_pixel = None
    /\ pixel_pc = "sent"

\* ------------------------------------------------------------------ init
Init ==
    /\ source \in Sources
    /\ PixelIdle
    /\ loader_pc = "open"
    /\ idx = 0
    /\ frame_count = 0
    /\ channel = <<>>
    /\ frames = <<>>
    /\ current_frame = 0
    /\ last_update = 0
    /\ loading_complete = FALSE
    /\ first_frame_loaded = FALSE
    /\ total_frame = 0
    /\ frames_loaded = 0
    /\ update_pc = "idle"
    /\ now = 0
    /\ shown = <<"nothing">>
    /\ repaint = None
    /\ sent = <<>>
    /\ applied = <<>>
    /\ drained = 0

\* ------------------------------------------------------------------ loader thread
\* Variant of Send: a rendezvous-sized sync_channel, whose send waits while a
\* message is pending.
Send_Bounded(m) ==
    /\ channel = <<>>
    /\ channel' = Append(channel, m)
    /\ sent' = Append(sent, m)

\* Sender::send on the unbounded channel: appends and returns at once.
Send(m) ==
    /\ channel' = Append(channel, m)
    /\ sent' = Append(sent, m)

\* Variant of LoaderOpenFile: the failure to open is swallowed and the thread
\* carries on with an empty frame sequence.
LoaderOpenFile_IgnoreError ==
    /\ loader_pc = "open"
    /\ loader_pc' = "decoder"
    /\ UNCHANGED <<pixelVars, source, idx, frame_count, channel, sent, applied, drained, now,
                   update_pc, overlayVars, outputVars>>

\* File::open(gif_path_clone).expect(..)
LoaderOpenFile ==
    /\ loader_pc = "open"
    /\ loader_pc' = IF source.kind = "unopenable" THEN "panicked" ELSE "decoder"
    /\ UNCHANGED <<pixelVars, source, idx, frame_count, channel, sent, applied, drained, now,
                   update_pc, overlayVars, outputVars>>

\* GifDecoder::new(file).expect(..); decoder.into_frames()
LoaderCreateDecoder ==
    /\ loader_pc = "decoder"
    /\ loader_pc' = IF source.kind = "invalid" THEN "panicked" ELSE "frames"
    /\ UNCHANGED <<pixelVars, source, idx, frame_count, channel, sent, applied, drained, now,
                   update_pc, overlayVars, outputVars>>

\* Variant of LoaderFrame: the index sent starts at 1 instead of 0.
LoaderFrame_IndexFromOne ==
    /\ loader_pc = "frames"
    /\ idx < Len(source.items)
    /\ frame_count' = idx + 1
    /\ idx' = idx + 1
    /\ IF source.items[idx + 1] = DecodeError
       THEN /\ loader_pc' = "panicked"
            /\ UNCHANGED <<channel, sent>>
       ELSE /\ Send(MsgFrameReady(idx + 1, source.items[idx + 1]))
            /\ loader_pc' = "frames"
    /\ UNCHANGED <<pixelVars, source, applied, drained, now, update_pc, overlayVars, outputVars>>

\* Variant of LoaderFrame: a frame that fails to decode is skipped instead of
\* ending the thread.
LoaderFrame_SkipError ==
    /\ loader_pc = "frames"
    /\ idx < Len(source.items)
    /\ frame_count' = idx + 1
    /\ idx' = idx + 1
    /\ IF source.items[idx + 1] = DecodeError
       THEN UNCHANGED <<channel, sent>>
       ELSE Send(MsgFrameReady(idx, source.items[idx + 1]))
    /\ loader_pc' = "frames"
    /\ UNCHANGED <<pixelVars, source, applied, drained, now, update_pc, overlayVars, outputVars>>

\* Variant of LoaderFrame: frame_count = idx instead of idx + 1.
LoaderFrame_CountIsIndex ==
    /\ loader_pc = "frames"
    /\ idx < Len(source.items)
    /\ frame_count' = idx
    /\ idx' = idx + 1
    /\ IF source.items[idx + 1] = DecodeError
       THEN /\ loader_pc' = "panicked"
            /\ UNCHANGED <<channel, sent>>
       ELSE /\ Send(MsgFrameReady(idx, source.items[idx + 1]))
            /\ loader_pc' = "frames"
    /\ UNCHANGED <<pixelVars, source, applied, drained, now, update_pc, overlayVars, outputVars>>

\* One iteration of `for (idx, frame) in frames.enumerate()`.
LoaderFrame ==
    /\ loader_pc = "frames"
    /\ idx < Len(source.items)
    /\ frame_count' = idx + 1
    /\ idx' = idx + 1
    /\ IF source.items[idx + 1] = DecodeError
       THEN \* frame.expect("failed to get frame") panics
            /\ loader_pc' = "panicked"
            /\ UNCHANGED <<channel, sent>>
       ELSE /\ Send(MsgFrameReady(idx, source.items[idx + 1]))
            /\ loader_pc' = "frames"
    /\ UNCHANGED <<pixelVars, source, applied, drained, now, update_pc, overlayVars, outputVars>>

\* Variant of LoaderComplete: the completion message is sent ahead of the loop.
LoaderComplete_BeforeLoop ==
    /\ loader_pc = "frames"
    /\ idx = 0
    /\ sent = <<>>
    /\ Send(MsgLoadingComplete(Len(source.items)))
    /\ loader_pc' = IF source.items = <<>> THEN "done" ELSE "frames"
    /\ UNCHANGED <<pixelVars, source, idx, frame_count, applied, drained, now,
                   update_pc, overlayVars, outputVars>>

\* The iterator is exhausted: send LoadingComplete(frame_count), thread ends.
LoaderComplete ==
    /\ loader_pc = "frames"
    /\ idx = Len(source.items)
    /\ Send(MsgLoadingComplete(frame_count))
    /\ loader_pc' = "done"
    /\ UNCHANGED <<pixelVars, source, idx, frame_count, applied, drained, now, update_pc,
                   overlayVars, outputVars>>

Loader == LoaderOpenFile \/ LoaderCreateDecoder \/ LoaderFrame \/ LoaderComplete

\* ------------------------------------------------------------------ consumer
\* Variant of PushNone: the store is grown while len < idx (one slot short).
RECURSIVE PushNone_OneShort(_, _)
PushNone_OneShort(fr, i) ==
    IF Len(fr) < i THEN PushNone_OneShort(Append(fr, None), i) ELSE fr

\* while self.frames.len() <= idx { self.frames.push(None) }
RECURSIVE PushNone(_, _)
PushNone(fr, i) == IF Len(fr) <= i THEN PushNone(Append(fr, None), i) ELSE fr

\* Variant of FrameReady: the first-frame flag is toggled instead of set.
FrameReady_ToggleFlag(i, delay) ==
    /\ frames' = [PushNone(frames, i) EXCEPT ![i + 1] = Some(Frame(i, delay))]
    /\ frames_loaded' = frames_loaded + 1
    /\ first_frame_loaded' = ~first_frame_loaded
    /\ UNCHANGED <<loading_complete, total_frame>>

\* Variant of FrameReady: the frame is stored at slot 0 instead of slot idx.
FrameReady_SlotZero(i, delay) ==
    /\ frames' = [PushNone(frames, i) EXCEPT ![1] = Some(Frame(i, delay))]
    /\ frames_loaded' = frames_loaded + 1
    /\ first_frame_loaded' = TRUE
    /\ UNCHANGED <<loading_complete, total_frame>>

\* Variant of FrameReady: the first-frame flag is never set.
FrameReady_NoFlag(i, delay) ==
    /\ frames' = [PushNone(frames, i) EXCEPT ![i + 1] = Some(Frame(i, delay))]
    /\ frames_loaded' = frames_loaded + 1
    /\ UNCHANGED <<first_frame_loaded, loading_complete, total_frame>>

\* match arm LoadingMessage::FrameReady(idx, pixels, size, delay)
FrameReady(i, delay) ==
    /\ frames' = [PushNone(frames, i) EXCEPT ![i + 1] = Some(Frame(i, delay))]
    /\ frames_loaded' = frames_loaded + 1
    /\ first_frame_loaded' = TRUE
    /\ UNCHANGED <<loading_complete, total_frame>>

\* Variant of LoadingComplete: completion also marks the first frame as ready.
LoadingComplete_MarksReady(total_frames) ==
    /\ loading_complete' = TRUE
    /\ total_frame' = total_frames
    /\ first_frame_loaded' = TRUE
    /\ UNCHANGED <<frames, frames_loaded>>

\* match arm LoadingMessage::LoadingComplete(total_frames)
LoadingComplete(total_frames) ==
    /\ loading_complete' = TRUE
    /\ total_frame' = total_frames
    /\ UNCHANGED <<frames, frames_loaded, first_frame_loaded>>

\* update is entered: the tick has produced no output yet.
UpdateBegin ==
    /\ update_pc = "idle"
    /\ update_pc' = "drain"
    /\ shown' = <<"nothing">>
    /\ repaint' = None
    /\ drained' = 0
    /\ UNCHANGED <<pixelVars, source, loaderVars, channel, sent, applied, now, overlayVars>>

\* process_incoming_frames: try_recv returned Ok(message); one loop iteration.
TryRecvOk ==
    /\ update_pc = "drain"
    /\ channel # <<>>
    /\ LET message == Head(channel) IN
        /\ channel' = Tail(channel)
        /\ applied' = Append(applied, message)
        /\ drained' = drained + 1
        /\ IF message.kind = "FrameReady"
           THEN FrameReady(message.idx, message.delay)
           ELSE LoadingComplete(message.idx)
    /\ UNCHANGED <<pixelVars, source, loaderVars, sent, now, update_pc, current_frame,
                   last_update, outputVars>>

\* Variant of TryRecvErr: a disconnected sender is taken for completion.
TryRecvErr_DisconnectCompletes ==
    /\ update_pc = "drain"
    /\ channel = <<>>
    /\ update_pc' = "show"
    /\ loading_complete' = (loading_complete \/ loader_pc \in {"done", "panicked"})
    /\ UNCHANGED <<pixelVars, source, loaderVars, channel, sent, applied, drained, now, frames,
                   current_frame, last_update, first_frame_loaded, total_frame,
                   frames_loaded, outputVars>>

\* Variant of TryRecvErr: the blocking recv is used, which fails only once the
\* sender is gone.
TryRecvErr_Blocking ==
    /\ update_pc = "drain"
    /\ channel = <<>>
    /\ loader_pc \in {"done", "panicked"}
    /\ update_pc' = "show"
    /\ UNCHANGED <<pixelVars, source, loaderVars, channel, sent, applied, drained, now,
                   overlayVars, outputVars>>

\* process_incoming_frames: try_recv returned Err (Empty or Disconnected);
\* the while-let loop ends and the function returns.
TryRecvErr ==
    /\ update_pc = "drain"
    /\ channel = <<>>
    /\ update_pc' = "show"
    /\ UNCHANGED <<pixelVars, source, loaderVars, channel, sent, applied, drained, now,
                   overlayVars, outputVars>>

\* Variant of GetNextAvailableFrame: the successor index, without the wrap.
GetNextAvailableFrame_NoWrap(fr, cur) ==
    IF fr = <<>> THEN None ELSE Some(cur + 1)

\* get_next_available_frame, as a function of frames and current_frame.
GetNextAvailableFrame(fr, cur) ==
    IF fr = <<>>
    THEN None
    ELSE LET next == (cur + 1) % Len(fr)
             start == next
         IN IF next = start THEN None ELSE Some(next)

\* The closure passed to Window::show.  Indexing frames[current_frame] out
\* of bounds panics.
Show ==
    /\ update_pc = "show"
    /\ IF first_frame_loaded
       THEN IF current_frame >= Len(frames)
            THEN /\ update_pc' = "panicked"
                 /\ UNCHANGED <<current_frame, last_update, shown>>
            ELSE LET slot == frames[current_frame + 1] IN
                 IF slot # None
                 THEN LET cur == Unwrap(slot)
                          next_frame == GetNextAvailableFrame(frames, current_frame)
                      IN /\ IF now - last_update >= cur.delay /\ next_frame # None
                            THEN /\ current_frame' = Unwrap(next_frame)
                                 /\ last_update' = now
                            ELSE UNCHANGED <<current_frame, last_update>>
                         /\ shown' = <<"image", cur.texture>>
                         /\ update_pc' = "schedule"
                 ELSE /\ UNCHANGED <<current_frame, last_update, shown>>
                      /\ update_pc' = "schedule"
       ELSE /\ shown' = <<"spinner">>
            /\ update_pc' = "schedule"
            /\ UNCHANGED <<current_frame, last_update>>
    /\ UNCHANGED <<pixelVars, source, loaderVars, channel, sent, applied, drained, now, frames,
                   loading_complete, first_frame_loaded, total_frame,
                   frames_loaded, repaint>>

\* The tail of update: request_repaint_after(time_until_next_frame).
Schedule ==
    /\ update_pc = "schedule"
    /\ IF first_frame_loaded
       THEN IF current_frame >= Len(frames)
            THEN /\ update_pc' = "panicked"
                 /\ UNCHANGED repaint
            ELSE LET slot == frames[current_frame + 1] IN
                 /\ update_pc' = "idle"
                 /\ IF slot # None
                    THEN LET time_until_next_frame ==
                                 SaturatingSub(Unwrap(slot).delay, now - last_update)
                         IN repaint' = IF time_until_next_frame # 0
                                       THEN Some(time_until_next_frame)
                                       ELSE None
                    ELSE UNCHANGED repaint
       ELSE /\ update_pc' = "idle"
            /\ UNCHANGED repaint
    /\ UNCHANGED <<pixelVars, source, loaderVars, channel, sent, applied, drained, now,
                   overlayVars, shown>>

Consumer == UpdateBegin \/ TryRecvOk \/ TryRecvErr \/ Show \/ Schedule

\* Instant::now() is monotonic; the clock advances between any two steps.
Tick ==
    /\ now < MaxTime
    /\ now' = now + 1
    /\ UNCHANGED <<pixelVars, source, loaderVars, channel, sent, applied, drained, update_pc,
                   overlayVars, outputVars>>

Next == Loader \/ Consumer \/ Tick

Spec == Init /\ [][Next]_vars

\* The loader runs on its own thread and the event loop keeps calling update.
FairSpec == Spec /\ WF_vars(Loader) /\ WF_vars(Consumer)

\* Only the UI thread is scheduled; the loader may stall at any point.
ConsumerFairSpec == Spec /\ WF_vars(Consumer)

\* Only the loader thread is scheduled; update may never be called again.
LoaderFairSpec == Spec /\ WF_vars(Loader)

\* The consumer driven through its Receiver by an arbitrary sender: FrameReady
\* messages of any index, in any order.  The loader thread takes no part.
\* Delays carried by that sender's frames (units of 50 ms).
GapDelays == {0, 2}

GapInit ==
    /\ source = [kind |-> "gif", items |-> <<>>]
    /\ PixelIdle
    /\ loader_pc = "done"
    /\ idx = 0
    /\ frame_count = 0
    /\ channel = <<>>
    /\ frames = <<>>
    /\ current_frame = 0
    /\ last_update = 0
    /\ loading_complete = FALSE
    /\ first_frame_loaded = FALSE
    /\ total_frame = 0
    /\ frames_loaded = 0
    /\ update_pc = "idle"
    /\ now = 0
    /\ shown = <<"nothing">>
    /\ repaint = None
    /\ sent = <<>>
    /\ applied = <<>>
    /\ drained = 0

SendAnyFrame ==
    /\ Len(sent) < MaxFrames
    /\ \E i \in 0..(MaxFrames - 1), delay \in GapDelays :
          Send(MsgFrameReady(i, delay))
    /\ UNCHANGED <<pixelVars, source, loaderVars, applied, drained, now, update_pc,
                   overlayVars, outputVars>>

GapNext == SendAnyFrame \/ Consumer \/ Tick

GapSpec == GapInit /\ [][GapNext]_vars

\* The pixel path on its own: one opacity argument and one pixel.
PipelineIdle ==
    /\ source = [kind |-> "gif", items |-> <<>>]
    /\ loader_pc = "done"
    /\ idx = 0
    /\ frame_count = 0
    /\ channel = <<>>
    /\ frames = <<>>
    /\ current_frame = 0
    /\ last_update = 0
    /\ loading_complete = FALSE
    /\ first_frame_loaded = FALSE
    /\ total_frame = 0
    /\ frames_loaded = 0
    /\ update_pc = "idle"
    /\ now = 0
    /\ shown = <<"nothing">>
    /\ repaint = None
    /\ sent = <<>>
    /\ applied = <<>>
    /\ drained = 0

pipelineVars == <<source, loaderVars, channel, overlayVars, update_pc, now,
                  outputVars, sent, applied, drained>>

PixelInit ==
    /\ PipelineIdle
    /\ raw_opacity \in RawOpacities
    /\ opacity = raw_opacity
    /\ pixel \in Pixels
    /\ out_pixel = None
    /\ pixel_pc = "new"

\* let opacity = opacity.clamp(0.0, 1.0);
ClampOpacity ==
    /\ pixel_pc = "new"
    /\ opacity' = Clamp(opacity)
    /\ pixel_pc' = "clamped"
    /\ UNCHANGED <<pipelineVars, raw_opacity, pixel, out_pixel>>

\* The loader maps the pixel with the clamped opacity it captured.
EmitPixel ==
    /\ pixel_pc = "clamped"
    /\ out_pixel' = Some(TransformPixel(pixel, opacity))
    /\ pixel_pc' = "sent"
    /\ UNCHANGED <<pipelineVars, raw_opacity, opacity, pixel>>

PixelNext == ClampOpacity \/ EmitPixel

PixelSpec == PixelInit /\ [][PixelNext]_vars

\* ------------------------------------------------------------------ properties
IsPrefix(s, t) == Len(s) <= Len(t) /\ \A k \in 1..Len(s) : s[k] = t[k]

\* Number of frames the source holds, and whether all of them decode.
NumItems == Len(source.items)
AllDecode ==
    /\ source.kind = "gif"
    /\ \A k \in 1..NumItems : source.items[k] # DecodeError
DecodeFails ==
    /\ source.kind = "gif"
    /\ NumItems >= 1
    /\ source.items[NumItems] = DecodeError

\* FrameReady messages for the first n items of the source, in index order.
ReadyMessages(n) == [k \in 1..n |-> MsgFrameReady(k - 1, source.items[k])]
\* The store holding exactly the first n frames of the source.
StoreOf(n) == [k \in 1..n |-> Some(Frame(k - 1, source.items[k]))]
\* The whole message sequence of a source whose frames all decode.
ExpectedMessages == Append(ReadyMessages(NumItems), MsgLoadingComplete(NumItems))

CountKind(s, kind) == Cardinality({k \in 1..Len(s) : s[k].kind = kind})

\* C1: for a source of N frames that all decode, under every interleaving the
\* consumer applies FrameReady 0, 1, .., N-1 in that order and then exactly one
\* LoadingComplete(N): what it has applied is always a prefix of that sequence,
\* applied followed by the pending messages is exactly what was sent (nothing
\* duplicated, dropped or reordered), and once the loader is done and the
\* channel is empty the whole sequence has been applied.
C1_OrderedDelivery ==
    /\ applied \o channel = sent
    /\ AllDecode =>
        /\ IsPrefix(applied, ExpectedMessages)
        /\ (loader_pc = "done" /\ channel = <<>> => applied = ExpectedMessages)

C1_Witness ==
    /\ AllDecode
    /\ NumItems >= 2
    /\ applied = ExpectedMessages

\* C2: whenever the first frame is ready, the slot at the cursor holds a frame
\* and now - last_update >= that frame's delay, the update tick moves the cursor
\* to (cursor + 1) mod frames.len() and sets last_update = now.
C2_PlaybackAdvance ==
    [][(/\ update_pc = "show"
        /\ update_pc' = "schedule"
        /\ first_frame_loaded
        /\ current_frame < Len(frames)
        /\ frames[current_frame + 1] # None
        /\ now - last_update >= Unwrap(frames[current_frame + 1]).delay)
       => /\ current_frame' = (current_frame + 1) % Len(frames)
          /\ last_update' = now]_vars

\* C3: first_frame_loaded and loading_complete never revert to false once true.
C3_MonotonicFlags ==
    [][/\ first_frame_loaded => first_frame_loaded'
       /\ loading_complete => loading_complete']_vars

C3_Witness ==
    /\ first_frame_loaded
    /\ loading_complete
    /\ frames_loaded >= 2
    /\ update_pc = "idle"

\* C4: once a slot of frames holds a frame, every later state has that slot
\* holding the same frame.
C4_SlotsStable ==
    [][\A k \in 1..Len(frames) :
          frames[k] # None => Len(frames') >= k /\ frames'[k] = frames[k]]_vars

C4_Witness ==
    /\ Len(frames) >= 2
    /\ \A k \in 1..Len(frames) : frames[k] # None
    /\ loading_complete

\* C5: while process_incoming_frames runs with no message pending, no step
\* changes the store, the cursor, last_update, frames_loaded, total_frame or
\* either flag, and the call returns to the rest of update.
C5_DrainIdempotent ==
    [][update_pc = "drain" /\ channel = <<>>
       => /\ UNCHANGED overlayVars
          /\ update_pc' \in {"drain", "show"}]_vars

\* A call that found nothing to apply, made after earlier calls filled the store.
C5_Witness ==
    /\ update_pc = "show"
    /\ drained = 0
    /\ channel = <<>>
    /\ frames_loaded >= 2
    /\ loading_complete

\* C6: when the source cannot be opened or parsed, the loader ends without
\* sending anything and the consumer stays loading forever: the store is empty,
\* both flags are false, update shows nothing but the spinner, and
\* process_incoming_frames can always return.
OpenOrInitFails == source.kind \in {"unopenable", "invalid"}

C6_OpenFailure ==
    /\ [](OpenOrInitFails =>
            /\ sent = <<>>
            /\ channel = <<>>
            /\ frames = <<>>
            /\ ~first_frame_loaded
            /\ ~loading_complete
            /\ loader_pc \in {"open", "decoder", "panicked"}
            /\ shown \in {<<"nothing">>, <<"spinner">>}
            /\ update_pc # "panicked"
            /\ (update_pc = "drain" => ENABLED TryRecvErr))
    /\ (OpenOrInitFails ~> loader_pc = "panicked")

C6_Witness ==
    /\ OpenOrInitFails
    /\ loader_pc = "panicked"
    /\ update_pc = "schedule"
    /\ drained = 0
    /\ shown = <<"spinner">>

\* C7: when decoding the frame at position k fails, the loader ends having sent
\* exactly FrameReady 0..k-1 and no LoadingComplete; the consumer stores those
\* k frames and loading_complete stays false.
FailPos == NumItems - 1

C7_DecodeFailure ==
    /\ [](DecodeFails =>
            /\ IsPrefix(sent, ReadyMessages(FailPos))
            /\ IsPrefix(frames, StoreOf(FailPos))
            /\ ~loading_complete
            /\ loader_pc # "done"
            /\ (loader_pc = "panicked" => sent = ReadyMessages(FailPos)))
    /\ (DecodeFails ~> loader_pc = "panicked")
    /\ (DecodeFails ~> frames = StoreOf(FailPos))

C7_Witness ==
    /\ DecodeFails
    /\ FailPos >= 2
    /\ loader_pc = "panicked"
    /\ frames = StoreOf(FailPos)

\* C8: for a source of N >= 1 frames that all decode, with the loader and the
\* consumer both scheduled fairly, first_frame_loaded eventually becomes true
\* and loading_complete eventually becomes true with all N slots filled.
C8_ProgressiveDelivery ==
    /\ (AllDecode /\ NumItems >= 1) ~> first_frame_loaded
    /\ (AllDecode /\ NumItems >= 1) ~>
          (loading_complete /\ first_frame_loaded /\ frames = StoreOf(NumItems))

\* Rendering starts before decoding finishes.
C8_Witness ==
    /\ AllDecode
    /\ NumItems >= 2
    /\ first_frame_loaded
    /\ ~loading_complete
    /\ loader_pc = "frames"
    /\ shown[1] = "image"

\* C9: the loader sends at most one LoadingComplete and exactly one once the
\* frame sequence is exhausted; the consumer applies at most one; and the
\* total_frame it records is the number of FrameReady messages the loader sent.
C9_CompleteOnce ==
    /\ CountKind(sent, "LoadingComplete") <= 1
    /\ CountKind(applied, "LoadingComplete") <= 1
    /\ loader_pc = "done" => CountKind(sent, "LoadingComplete") = 1
    /\ loading_complete <=> CountKind(applied, "LoadingComplete") = 1
    /\ loading_complete => total_frame = CountKind(sent, "FrameReady")
    /\ ~loading_complete => total_frame = 0

C9_Witness ==
    /\ loading_complete
    /\ total_frame >= 2
    /\ update_pc = "drain"
    /\ now > 0

\* C10: process_incoming_frames never blocks: while it runs, its next poll can
\* always be taken whatever the loader does; a poll that finds the channel empty
\* returns; a poll that finds a message applies exactly the oldest pending one;
\* and with the UI thread alone being scheduled every call returns.
C10_DrainNonBlocking ==
    /\ [](update_pc = "drain" => ENABLED (TryRecvOk \/ TryRecvErr))
    /\ [](update_pc = "drain" /\ channel = <<>> => ENABLED TryRecvErr)
    /\ [][update_pc = "drain" /\ applied' # applied
          => channel # <<>> /\ applied' = Append(applied, Head(channel))]_vars
    /\ (update_pc = "drain" ~> update_pc = "show")

\* A call that returned empty-handed while the loader still has frames to send.
C10_Witness ==
    /\ update_pc = "show"
    /\ drained = 0
    /\ loader_pc = "frames"
    /\ idx < NumItems
    /\ applied # <<>>

\* C11: the loader's progress does not depend on the consumer: while the thread
\* is alive its next step can always be taken, whatever the channel holds, and
\* with the loader alone being scheduled a source whose frames all decode ends
\* with the thread done and all N FrameReady plus LoadingComplete sent.
LoaderAlive == loader_pc \in {"open", "decoder", "frames"}

C11_LoaderIndependent ==
    /\ [](LoaderAlive => ENABLED Loader)
    /\ (AllDecode ~> (loader_pc = "done" /\ sent = ExpectedMessages))

\* The loader finished although the consumer never received anything.
C11_Witness ==
    /\ AllDecode
    /\ NumItems >= 2
    /\ loader_pc = "done"
    /\ applied = <<>>
    /\ channel = ExpectedMessages

\* C12: applying FrameReady(i) to a store of fewer than i + 1 slots extends it
\* with empty slots up to and including i (every other slot unchanged, slot i
\* filled); and while the cursor points at an empty slot, update shows no image,
\* requests no repaint and completes without indexing out of bounds.
CursorSlotEmpty ==
    /\ first_frame_loaded
    /\ current_frame < Len(frames)
    /\ frames[current_frame + 1] = None

GrownBy(message) ==
    LET i == message.idx
        newLen == IF Len(frames) > i + 1 THEN Len(frames) ELSE i + 1
    IN /\ Len(frames') = newLen
       /\ \A k \in 1..newLen :
            frames'[k] = IF k = i + 1 THEN Some(Frame(i, message.delay))
                         ELSE IF k <= Len(frames) THEN frames[k]
                         ELSE None

C12_GapBehaviour ==
    /\ [](update_pc # "panicked")
    /\ [](first_frame_loaded => current_frame < Len(frames))
    /\ [][applied' # applied => GrownBy(Head(channel))]_vars
    /\ [][CursorSlotEmpty /\ update_pc = "show" /\ update_pc' # "show"
            => update_pc' = "schedule" /\ shown' = <<"nothing">>]_vars
    /\ [][CursorSlotEmpty /\ update_pc = "schedule" /\ update_pc' # "schedule"
            => update_pc' = "idle" /\ repaint' = None]_vars

\* A tick has completed on a store whose only frame sits behind two empty slots.
C12_Witness ==
    /\ CursorSlotEmpty
    /\ Len(frames) >= 3
    /\ frames[2] = None
    /\ frames[3] # None
    /\ update_pc = "idle"
    /\ shown = <<"nothing">>

\* C13 (as claimed): on every update tick in which a frame is loaded the
\* consumer requests a redraw after max(0, delay - (now - last_update)); it
\* makes no request only when no frame is loaded.
FrameAtCursor ==
    /\ first_frame_loaded
    /\ current_frame < Len(frames)
    /\ frames[current_frame + 1] # None

TimeUntilNextTransition ==
    LET remaining == Unwrap(frames[current_frame + 1]).delay - (now - last_update)
    IN IF remaining > 0 THEN remaining ELSE 0

ScheduleStep == update_pc = "schedule" /\ update_pc' = "idle"

C13_RedrawWheneverLoaded ==
    [][ScheduleStep =>
         repaint' = IF FrameAtCursor THEN Some(TimeUntilNextTransition) ELSE None]_vars

\* C13 (amended): on an update tick in which a frame is loaded and
\* max(0, delay - (now - last_update)) is positive, the consumer requests a
\* redraw after that time; it makes no request when no frame is loaded or when
\* that time is zero.
C13_RedrawWhenPending ==
    [][ScheduleStep =>
         repaint' = IF FrameAtCursor /\ TimeUntilNextTransition > 0
                    THEN Some(TimeUntilNextTransition)
                    ELSE None]_vars

\* A request for the 100 ms left of a 200 ms frame.
C13_Witness ==
    /\ FrameAtCursor
    /\ update_pc = "idle"
    /\ Unwrap(frames[current_frame + 1]).delay = 4
    /\ repaint = Some(2)

\* C14 (as claimed): the raw opacity is clamped to [0,1] before use (1.5 acts
\* as 1.0, -0.5 as 0.0); for a pixel of source alpha a and clamped opacity o the
\* emitted alpha is floor(a*o), which lies in 0..a, and the three colour
\* channels are the source's.
ExceedsOne(o) == ~o.neg /\ o.m > Pow2(o.e)

\* floor of the exact product a * o, for 0 <= o <= 1.
ExactFloor(a, o) ==
    IF o.e >= 12 THEN ProductHi(a, o) \div Pow2(o.e - 12)
    ELSE (a * o.m) \div Pow2(o.e)

\* How far the exact product lies below floor + 1, in units of 2^-e.
GapToNextInteger(a, o) ==
    LET rem == IF o.e >= 12
               THEN (ProductHi(a, o) % Pow2(o.e - 12)) * 4096 + ProductLo(a, o)
               ELSE (a * o.m) % Pow2(o.e)
    IN Pow2(o.e) - rem

\* The exact product lies at most 2^-17 below the next integer: half an ulp of
\* an f32 below 256.
WithinHalfUlp(a, o) == o.e >= 17 /\ GapToNextInteger(a, o) <= Pow2(o.e - 17)

ClampedAsClaimed ==
    /\ raw_opacity.neg => opacity = Zero
    /\ ExceedsOne(raw_opacity) => opacity = One
    /\ ~raw_opacity.neg /\ ~ExceedsOne(raw_opacity) => opacity = raw_opacity

C14_ExactFloor ==
    out_pixel # None =>
        LET out == Unwrap(out_pixel) IN
        /\ ClampedAsClaimed
        /\ out[4] = ExactFloor(pixel[4], opacity)
        /\ out[4] \in 0..pixel[4]
        /\ <<out[1], out[2], out[3]>> = <<pixel[1], pixel[2], pixel[3]>>

\* C14 (amended): as claimed, except that the emitted alpha is floor(a*o) or,
\* when the exact product lies within half an f32 ulp (at most 2^-17) below the
\* next integer, floor(a*o) + 1: the f32 product is rounded to nearest before
\* it is truncated.
C14_RoundedFloor ==
    out_pixel # None =>
        LET out == Unwrap(out_pixel)
            a == pixel[4]
        IN
        /\ ClampedAsClaimed
        /\ \/ out[4] = ExactFloor(a, opacity)
           \/ out[4] = ExactFloor(a, opacity) + 1 /\ WithinHalfUlp(a, opacity)
        /\ out[4] \in 0..a
        /\ ExceedsOne(raw_opacity) => out[4] = a
        /\ raw_opacity.neg => out[4] = 0
        /\ <<out[1], out[2], out[3]>> = <<pixel[1], pixel[2], pixel[3]>>

\* Opacity 1.5 was clamped and a half-transparent coloured pixel came out as is.
C14_Witness ==
    /\ pixel_pc = "sent"
    /\ out_pixel # None
    /\ ExceedsOne(raw_opacity)
    /\ opacity = One
    /\ pixel = <<255, 128, 7, 128>>
    /\ Unwrap(out_pixel) = pixel

\* C15: in the pipeline of loader, FIFO channel and drain, no gap is ever
\* visible: every slot 0..frames.len()-1 is filled, and the store is the prefix
\* of that length of the decoded frame sequence.
C15_DensePrefix ==
    /\ \A k \in 1..Len(frames) : frames[k] # None
    /\ Len(frames) <= NumItems
    /\ frames = StoreOf(Len(frames))

C15_Witness ==
    /\ Len(frames) = 2
    /\ NumItems >= 3
    /\ loader_pc = "frames"
    /\ channel # <<>>

\* C16: whenever the store is non-empty, 0 <= current_frame < frames.len(); so
\* once first_frame_loaded is set, the indexing frames[current_frame] in update
\* is in bounds and update never panics.
C16_CursorInBounds ==
    /\ frames # <<>> => (0 <= current_frame /\ current_frame < Len(frames))
    /\ first_frame_loaded => frames # <<>>
    /\ update_pc # "panicked"

\* A tick past the first frame's delay has indexed the store and shown it.
C16_Witness ==
    /\ first_frame_loaded
    /\ Len(frames) >= 2
    /\ update_pc = "idle"
    /\ shown[1] = "image"
    /\ now - last_update >= Unwrap(frames[current_frame + 1]).delay
    /\ now > 0

\* C17: the pipeline state only moves forward through Empty, Loading, Loaded,
\* and LoadingComplete is the last message applied: once loading_complete is
\* true no FrameReady is applied, and the store, frames_loaded and total_frame
\* never change again.
Phase ==
    IF loading_complete THEN "Loaded"
    ELSE IF first_frame_loaded THEN "Loading"
    ELSE "Empty"

PhaseForward(p, q) ==
    \/ p = q
    \/ p = "Empty"
    \/ p = "Loading" /\ q = "Loaded"

C17_ForwardOnly ==
    [][/\ PhaseForward(Phase, Phase')
       /\ loading_complete =>
            /\ applied' = applied
            /\ UNCHANGED <<frames, frames_loaded, total_frame>>]_vars

\* Loaded, and ticks keep running on the finished store.
C17_Witness ==
    /\ Phase = "Loaded"
    /\ Len(frames) >= 2
    /\ update_pc = "drain"
    /\ drained = 0
    /\ channel = <<>>

\* C18: frames_loaded equals the number of filled slots and frames.len();
\* first_frame_loaded holds exactly when frames_loaded >= 1; and whenever
\* loading_complete holds, total_frame = frames_loaded = frames.len().
FilledSlots == Cardinality({k \in 1..Len(frames) : frames[k] # None})

C18_CountersConsistent ==
    /\ frames_loaded = FilledSlots
    /\ frames_loaded = Len(frames)
    /\ first_frame_loaded <=> frames_loaded >= 1
    /\ loading_complete => total_frame = frames_loaded /\ total_frame = Len(frames)

C18_Witness ==
    /\ loading_complete
    /\ total_frame >= 2
    /\ frames_loaded = total_frame
    /\ update_pc = "idle"

\* C19: for a source that decodes to 0 frames the loader sends only
\* LoadingComplete(0); the consumer reaches loading_complete with
\* total_frame = 0 while the store stays empty and first_frame_loaded stays
\* false, so every update tick shows the spinner, never indexes the store and
\* requests no redraw.
ZeroFrames == source.kind = "gif" /\ source.items = <<>>

C19_ZeroFrameSource ==
    /\ [](ZeroFrames =>
            /\ IsPrefix(sent, <<MsgLoadingComplete(0)>>)
            /\ frames = <<>>
            /\ ~first_frame_loaded
            /\ total_frame = 0
            /\ shown \in {<<"nothing">>, <<"spinner">>}
            /\ update_pc \in {"schedule", "idle"} /\ applied # <<>>
                 => shown = <<"spinner">>
            /\ repaint = None
            /\ update_pc # "panicked")
    /\ (ZeroFrames ~> loading_complete)

C19_Witness ==
    /\ ZeroFrames
    /\ loading_complete
    /\ update_pc = "idle"
    /\ shown = <<"spinner">>
    /\ drained = 0

====
